---- MODULE Spec2Model ----
(***************************************************************************)
(* Model of fleet_dashboard.py: the upload loop process_uploaded_files,    *)
(* the filter section, the Daily Subtotals and Fleet Summary aggregations  *)
(* and the styled Excel export, as one run of the Streamlit script.        *)
(*                                                                         *)
(* Values.  A calendar day is a positive integer (day 1 = 2024-01-01), a   *)
(* timestamp is minutes since day 0, amounts are integers.  Text cells are *)
(* strings; an empty text cell is the reader's NaN.                        *)
(***************************************************************************)
EXTENDS Integers, Sequences, FiniteSets

(***************************************************************************)
(* Bounds of the model.                                                    *)
(***************************************************************************)
\* most files in one uploaded batch
MaxFiles == 2
\* most data rows in one uploaded batch, over all its files
MaxRows == 2

(***************************************************************************)
(* Inputs: the cells a file can hold.                                      *)
(***************************************************************************)
REQUIRED_COLS == <<"Date", "Fleet", "Amount">>

RequiredSet == {REQUIRED_COLS[k] : k \in 1..Len(REQUIRED_COLS)}

DateTexts == {"2024-01-01", "2024-01-02 08:30", "n/a"}

\* a fleet name and a missing cell; no fleet is named like a marker row
FleetCells == {"FleetA", ""}

AmountTexts == {"100", "abc"}

FileNames == {"trips.csv", "TRIPS.XLSX", "notes.txt"}

\* the missing-date value of pandas (NaT); never a calendar day
NaT == 0

MinutesPerDay == 1440

\* the calendar days the date picker offers: the days of the data and one more
PickableDays == 1..3

(***************************************************************************)
(* Walking a table (a sequence of rows).                                   *)
(***************************************************************************)
\* the rows of a table that are in the set S, in table order (a boolean mask)
Select(t, S) ==
    LET sel[k \in 0..Len(t)] ==
            IF k = 0 THEN << >>
            ELSE IF t[k] \in S THEN Append(sel[k - 1], t[k]) ELSE sel[k - 1]
    IN sel[Len(t)]

\* one column of a table
Column(t, c) == [k \in 1..Len(t) |-> t[k][c]]

\* .sum() of a column
Sum(ns) ==
    LET acc[k \in 0..Len(ns)] == IF k = 0 THEN 0 ELSE acc[k - 1] + ns[k]
    IN acc[Len(ns)]

\* the rows of a table, as a set
RowsOf(t) == {t[k] : k \in 1..Len(t)}

(***************************************************************************)
(* Record Normalizer: the conversions of lines 82-85.                      *)
(***************************************************************************)
\* the cells the reader takes for missing values (the default na_values of
\* pd.read_csv and pd.read_excel): they reach line 82 as NaN
isna(s) == s \in {"n/a", ""}

\* the format pd.to_datetime guesses from one text, "none" when it guesses none
guess_datetime_format(s) ==
    CASE s = "2024-01-01" -> "%Y-%m-%d"
      [] s = "2024-01-02 08:30" -> "%Y-%m-%d %H:%M"
      [] OTHER -> "none"

\* parsing one text with a format, exactly: a timestamp, or NaT for a text
\* that does not match the format (errors="coerce")
strptime(s, fmt) ==
    CASE s = "2024-01-01" /\ fmt = "%Y-%m-%d" -> 1 * MinutesPerDay
      [] s = "2024-01-02 08:30" /\ fmt = "%Y-%m-%d %H:%M" -> 2 * MinutesPerDay + 510
      [] OTHER -> NaT

\* the position of the first cell of a column that is not missing, 0 if none
first_non_null(texts) ==
    LET held == {k \in 1..Len(texts) : ~isna(texts[k])}
    IN IF held = {} THEN 0 ELSE CHOOSE k \in held : \A j \in held : k <= j

\* pd.to_datetime(column, errors="coerce"): one format is guessed from the
\* first cell that is not missing and every cell is parsed with it; a cell
\* that does not match it becomes NaT
to_datetime(texts) ==
    LET first == first_non_null(texts)
        fmt == IF first = 0 THEN "none" ELSE guess_datetime_format(texts[first])
    IN [k \in 1..Len(texts) |-> strptime(texts[k], fmt)]

\* .dt.date: the calendar day of a timestamp; NaT stays NaT
dt_date(ts) == IF ts = NaT THEN NaT ELSE ts \div MinutesPerDay

\* pd.to_numeric(errors="coerce"): <<n>> for a number, << >> for NaN
to_numeric(s) ==
    CASE s = "100" -> <<100>>
      [] OTHER -> << >>

\* .fillna(0)
fillna0(x) == IF x = << >> THEN 0 ELSE x[1]

\* .astype(str): a missing cell becomes the text "nan"
astype_str(c) == IF isna(c) THEN "nan" ELSE c

\* file.name.lower()
lower(name) ==
    CASE name = "TRIPS.XLSX" -> "trips.xlsx"
      [] OTHER -> name

\* str.endswith on the lower-cased names of the model
endswith(name, ext) ==
    \/ ext = ".csv" /\ name = "trips.csv"
    \/ ext = ".xlsx" /\ name = "trips.xlsx"

\* a variant of Standardize that drops the rows whose Amount is not a number
\* (dropna in place of fillna)
Standardize_DropsUnparsable(rows) ==
    LET kept == Select(rows, {r \in RowsOf(rows) : to_numeric(r.Amount) # << >>})
        Date == to_datetime(Column(kept, "Date"))
    IN [k \in 1..Len(kept) |->
           [Date |-> Date[k],
            OnlyDate |-> dt_date(Date[k]),
            Amount |-> fillna0(to_numeric(kept[k].Amount)),
            Fleet |-> astype_str(kept[k].Fleet)]]

\* lines 82-85 on the table of one file: every row is kept, in order, with
\* its Date parsed as a cell of the Date column
Standardize(rows) ==
    LET Date == to_datetime(Column(rows, "Date"))
    IN [k \in 1..Len(rows) |->
           [Date |-> Date[k],
            OnlyDate |-> dt_date(Date[k]),
            Amount |-> fillna0(to_numeric(rows[k].Amount)),
            Fleet |-> astype_str(rows[k].Fleet)]]

\* a variant of missing that names only the first column a table lacks
missing_FirstOnly(columns) ==
    LET lacks == {k \in 1..Len(REQUIRED_COLS) : REQUIRED_COLS[k] \notin columns}
    IN IF lacks = {} THEN << >>
       ELSE <<REQUIRED_COLS[CHOOSE k \in lacks : \A j \in lacks : k <= j]>>

\* line 76: the required columns the table lacks, in REQUIRED_COLS order
RECURSIVE MissingFrom(_, _)
MissingFrom(k, columns) ==
    IF k > Len(REQUIRED_COLS) THEN << >>
    ELSE (IF REQUIRED_COLS[k] \in columns THEN << >> ELSE <<REQUIRED_COLS[k]>>)
         \o MissingFrom(k + 1, columns)

missing(columns) == MissingFrom(1, columns)

(***************************************************************************)
(* The uploaded batches.                                                   *)
(***************************************************************************)
RawRow == [Date : DateTexts, Fleet : FleetCells, Amount : AmountTexts]

\* a file that parses and holds the three required columns, with n rows.  Lines
\* 76-89 do not look at the format a table was read from, so the tables of
\* the model arrive as CSV; workbooks are among the files below, where the
\* script treats the two formats differently.
ValidFiles(n) ==
    [name : {"trips.csv"}, readable : {TRUE},
     columns : {RequiredSet}, rows : [1..n -> RawRow]]

\* a file that parses and lacks a required column; it holds one row
LackingFiles ==
    {[name |-> nm, readable |-> TRUE, columns |-> RequiredSet \ m,
      rows |-> <<[c \in RequiredSet \ m |-> "x"]>>] :
        nm \in {"trips.csv", "TRIPS.XLSX"}, m \in {{"Fleet"}, {"Date", "Amount"}}}

\* a file the reader fails on, and a file of another extension
UnreadFiles ==
    {[name |-> nm, readable |-> FALSE, columns |-> {}, rows |-> << >>] :
        nm \in FileNames}

\* the data rows of a batch, over all its files
RECURSIVE RowsIn(_)
RowsIn(files) ==
    IF files = << >> THEN 0 ELSE Len(Head(files).rows) + RowsIn(Tail(files))

(***************************************************************************)
(* Tables.  A table is a sequence of rows.  A record table row is          *)
(* [Date, OnlyDate, Amount, Fleet]; a report row is a tuple of its cells   *)
(* in column order.                                                        *)
(***************************************************************************)
\* line 113: pd.concat(dfs, ignore_index=True)
RECURSIVE concat(_)
concat(dfs) == IF dfs = << >> THEN << >> ELSE Head(dfs) \o concat(Tail(dfs))

\* the days of the OnlyDate column that are not NaT
DaysOf(t) == {r.OnlyDate : r \in RowsOf(t)} \ {NaT}

HasNaT(t) == \E r \in RowsOf(t) : r.OnlyDate = NaT

\* Python's order of the strings a Fleet column of the model can hold
StrRank(s) ==
    CASE s = "FleetA" -> 1
      [] s = "nan" -> 2

\* sorted(): the elements of a set of strings in ascending order
RECURSIVE SortedStrs(_)
SortedStrs(S) ==
    IF S = {} THEN << >>
    ELSE LET m == CHOOSE x \in S : \A y \in S : StrRank(x) <= StrRank(y)
         IN <<m>> \o SortedStrs(S \ {m})

\* the elements of a set of days in ascending order
RECURSIVE SortedDays(_)
SortedDays(S) ==
    IF S = {} THEN << >>
    ELSE LET m == CHOOSE x \in S : \A y \in S : x <= y
         IN <<m>> \o SortedDays(S \ {m})

(***************************************************************************)
(* Filter section, lines 118-126.                                          *)
(***************************************************************************)
\* what st.date_input can return: a range of two days, or one day while the
\* operator is still picking the second
DateRanges ==
    {<<a, b>> : a \in PickableDays, b \in PickableDays} \cup {<<a>> : a \in PickableDays}

\* line 122: both comparisons are False on a NaT
InRange(r, date_range) ==
    /\ r.OnlyDate # NaT
    /\ r.OnlyDate >= date_range[1]
    /\ r.OnlyDate <= date_range[2]

\* lines 121-122
DateFilter(t, date_range) ==
    IF Len(date_range) = 2
    THEN Select(t, {r \in RowsOf(t) : InRange(r, date_range)})
    ELSE t

\* line 124: options=sorted(df["Fleet"].unique())
FleetOptions(t) == {r.Fleet : r \in RowsOf(t)}

\* lines 125-126
FleetFilter(t, fleet_filter) ==
    IF fleet_filter # {}
    THEN Select(t, {r \in RowsOf(t) : r.Fleet \in fleet_filter})
    ELSE t

(***************************************************************************)
(* Aggregator, lines 132-174.                                              *)
(***************************************************************************)
\* one group of lines 132-135: sum of Amount and count of Fleet
GroupRow(t, d, f) ==
    LET g == Select(t, {r \in RowsOf(t) : r.OnlyDate = d /\ r.Fleet = f})
    IN [OnlyDate |-> d, Fleet |-> f,
        TotalAmount |-> Sum(Column(g, "Amount")), FleetCount |-> Len(Column(g, "Fleet"))]

\* the groups of one day, in ascending fleet order
GroupsOfDay(t, d) ==
    LET fleets == SortedStrs({r.Fleet : r \in {x \in RowsOf(t) : x.OnlyDate = d}})
    IN [k \in 1..Len(fleets) |-> GroupRow(t, d, fleets[k])]

RECURSIVE GroupedFrom(_, _)
GroupedFrom(t, days) ==
    IF days = << >> THEN << >>
    ELSE GroupsOfDay(t, Head(days)) \o GroupedFrom(t, Tail(days))

\* lines 132-135: groupby(["OnlyDate", "Fleet"]) sorts the keys and drops the
\* rows whose key holds a missing value
grouped(t) == GroupedFrom(t, SortedDays(DaysOf(t)))

\* lines 142-148: one report row per group row
FleetRowOf(g) == <<g.OnlyDate, g.Fleet, g.FleetCount, g.TotalAmount>>

\* a variant of SubtotalRow that takes the figures of the day's last fleet row
SubtotalRow_LastGroupOnly(d, group) ==
    <<d, "Subtotal", group[Len(group)].FleetCount, group[Len(group)].TotalAmount>>

\* lines 139-140 and 151-156: the Subtotal row of one day's group
SubtotalRow(d, group) ==
    <<d, "Subtotal", Sum(Column(group, "FleetCount")), Sum(Column(group, "TotalAmount"))>>

\* a variant of DayBlock that writes the Subtotal row before the fleet rows
DayBlock_SubtotalFirst(g, d) ==
    LET group == Select(g, {x \in RowsOf(g) : x.OnlyDate = d})
    IN <<SubtotalRow(d, group)>> \o [k \in 1..Len(group) |-> FleetRowOf(group[k])]

\* lines 138-156, one iteration: the day's fleet rows, then its Subtotal row
DayBlock(g, d) ==
    LET group == Select(g, {x \in RowsOf(g) : x.OnlyDate = d})
    IN [k \in 1..Len(group) |-> FleetRowOf(group[k])] \o <<SubtotalRow(d, group)>>

RECURSIVE BlocksFrom(_, _)
BlocksFrom(g, days) ==
    IF days = << >> THEN << >>
    ELSE DayBlock(g, Head(days)) \o BlocksFrom(g, Tail(days))

\* lines 137-158: grouped.groupby("OnlyDate") walks the days in ascending order
formatted_rows(g) ==
    BlocksFrom(g, SortedDays({x.OnlyDate : x \in RowsOf(g)} \ {NaT}))

\* one group of lines 164-167
FleetGroupRow(t, f) ==
    LET g == Select(t, {r \in RowsOf(t) : r.Fleet = f})
    IN <<f, Len(Column(g, "Fleet")), Sum(Column(g, "Amount"))>>

\* lines 164-167: groupby("Fleet"), keys ascending
FleetGroups(t) ==
    LET fleets == SortedStrs(FleetOptions(t))
    IN [k \in 1..Len(fleets) |-> FleetGroupRow(t, fleets[k])]

\* a variant of GrandTotalRow whose count is the number of fleet rows
GrandTotalRow_CountsFleets(fg) ==
    <<"Grand Total", Len(fg), Sum(Column(fg, 3))>>

\* lines 170-174: the Grand Total row is written at position len(fleet_summary)
GrandTotalRow(fg) ==
    <<"Grand Total", Sum(Column(fg, 2)), Sum(Column(fg, 3))>>

\* a variant of fleet_summary_of that writes no Grand Total row when no fleet
\* row precedes it
fleet_summary_of_NoTotalWhenEmpty(t) ==
    LET fg == FleetGroups(t) IN IF fg = << >> THEN << >> ELSE Append(fg, GrandTotalRow(fg))

\* lines 164-174
fleet_summary_of(t) == LET fg == FleetGroups(t) IN Append(fg, GrandTotalRow(fg))

(***************************************************************************)
(* Report Formatter, lines 10-38.  A cell is [t, s, n]: its type, its text *)
(* when it is text, its number when it is a number or a day.               *)
(***************************************************************************)
StrCell(x) == [t |-> "str", s |-> x, n |-> 0]

NumCell(x) == [t |-> "num", s |-> "", n |-> x]

DateCell(x) == [t |-> "date", s |-> "", n |-> x]

\* line 12 on the Daily Subtotals table: Date, Fleet, Fleet Count, Total Amount
DailyCells(row) == <<DateCell(row[1]), StrCell(row[2]), NumCell(row[3]), NumCell(row[4])>>

\* line 12 on the Fleet Summary table: Fleet, TotalFleetCount, TotalAmount
SummaryCells(row) == <<StrCell(row[1]), NumCell(row[2]), NumCell(row[3])>>

\* line 26: row[1] is the second cell of the sheet row
IsMarkerRow(cells) ==
    /\ cells[2].t = "str"
    /\ cells[2].s = "Subtotal" \/ cells[2].s = "Grand Total"

\* lines 25-34 on one sheet row: bold on every cell of a marker row, the
\* currency format on every numeric cell
StyleRow(cells) ==
    [cells |-> cells,
     bold |-> IsMarkerRow(cells),
     currency |-> [j \in 1..Len(cells) |-> cells[j].t = "num"]]

\* lines 10-38: the header row (filled, bold) and the styled data rows
style_and_export_to_excel(header, cellrows, sheet_name) ==
    [sheet_name |-> sheet_name,
     header |-> header,
     header_bold |-> TRUE,
     rows |-> [k \in 1..Len(cellrows) |-> StyleRow(cellrows[k])]]

DailyHeader == <<"Date", "Fleet", "Fleet Count", "Total Amount (₦)">>

SummaryHeader == <<"Fleet", "TotalFleetCount", "TotalAmount">>

\* line 181; pd.DataFrame([]) of line 158 has no columns when there is no row
ExportDaily(t) ==
    style_and_export_to_excel(IF t = << >> THEN << >> ELSE DailyHeader,
                              [k \in 1..Len(t) |-> DailyCells(t[k])], "Daily_Subtotals")

\* line 182
ExportSummary(t) ==
    style_and_export_to_excel(SummaryHeader,
                              [k \in 1..Len(t) |-> SummaryCells(t[k])], "Fleet_Summary")

VARIABLES
    uploaded_files,  \* the batch in the uploader (line 101)
    i,               \* process_uploaded_files: position of the next file
    all_dfs,         \* process_uploaded_files: the tables accepted so far
    msgs,            \* the st.error / st.warning messages, in order
    progress,        \* numerator of the last progress fraction shown
    status_text,     \* the status line
    pc,              \* where the script is
    err,             \* the uncaught exception that ended the run, or "none"
    df,              \* the record table: combined, then filtered
    subtotal_df,     \* the Daily Subtotals table
    fleet_summary,   \* the Fleet Summary table
    styled_subtotal, \* the exported Daily_Subtotals sheet
    styled_fleet     \* the exported Fleet_Summary sheet

loop_vars == <<i, all_dfs, msgs, progress, status_text>>

report_vars == <<subtotal_df, fleet_summary, styled_subtotal, styled_fleet>>

vars == <<uploaded_files, pc, err, df, loop_vars, report_vars>>

NoSheet == [sheet_name |-> "", header |-> << >>, header_bold |-> FALSE, rows |-> << >>]

Init ==
    /\ uploaded_files = << >>
    /\ i = 1
    /\ all_dfs = << >>
    /\ msgs = << >>
    /\ progress = 0
    /\ status_text = "none"
    /\ pc = "upload"
    /\ err = "none"
    /\ df = << >>
    /\ subtotal_df = << >>
    /\ fleet_summary = << >>
    /\ styled_subtotal = NoSheet
    /\ styled_fleet = NoSheet

\* lines 101-105: the operator adds a file to the uploader
Upload ==
    /\ pc = "upload"
    /\ Len(uploaded_files) < MaxFiles
    /\ \E n \in 0..(MaxRows - RowsIn(uploaded_files)) :
         \E f \in ValidFiles(n) \cup (IF n = 1 THEN LackingFiles ELSE {})
                                \cup (IF n = 0 THEN UnreadFiles ELSE {}) :
            uploaded_files' = Append(uploaded_files, f)
    /\ UNCHANGED <<pc, err, df, loop_vars, report_vars>>

\* line 107: the script runs on a batch that is not empty
Run ==
    /\ pc = "upload"
    /\ uploaded_files # << >>
    /\ pc' = "read"
    /\ UNCHANGED <<uploaded_files, err, df, loop_vars, report_vars>>

(***************************************************************************)
(* process_uploaded_files, lines 45-92: one action per way through one     *)
(* iteration of the loop.                                                  *)
(***************************************************************************)
file == uploaded_files[i]

file_name == lower(file.name)

InLoop == pc = "read" /\ i <= Len(uploaded_files)

Supported == endswith(file_name, ".csv") \/ endswith(file_name, ".xlsx")

Message(level, about, cols) ==
    [level |-> level, file |-> file.name, about |-> about, missing |-> cols]

\* lines 58-59 when pd.read_csv raises: no handler, the exception leaves the
\* function and ends the run
ReadCsvFails ==
    /\ InLoop
    /\ endswith(file_name, ".csv")
    /\ ~file.readable
    /\ status_text' = file.name
    /\ pc' = "error"
    /\ err' = "read_csv"
    /\ UNCHANGED <<uploaded_files, df, i, all_dfs, msgs, progress, report_vars>>

\* lines 62-69 when the workbook cannot be read
ReadXlsxFails ==
    /\ InLoop
    /\ ~endswith(file_name, ".csv")
    /\ endswith(file_name, ".xlsx")
    /\ ~file.readable
    /\ status_text' = file.name
    /\ msgs' = Append(msgs, Message("error", "unreadable", << >>))
    /\ i' = i + 1
    /\ UNCHANGED <<uploaded_files, pc, err, df, all_dfs, progress, report_vars>>

\* lines 71-73
SkipUnsupported ==
    /\ InLoop
    /\ ~Supported
    /\ status_text' = file.name
    /\ msgs' = Append(msgs, Message("warning", "unsupported", << >>))
    /\ i' = i + 1
    /\ UNCHANGED <<uploaded_files, pc, err, df, all_dfs, progress, report_vars>>

\* lines 76-79
SkipLacking ==
    /\ InLoop
    /\ Supported
    /\ file.readable
    /\ missing(file.columns) # << >>
    /\ status_text' = file.name
    /\ msgs' = Append(msgs, Message("error", "columns", missing(file.columns)))
    /\ i' = i + 1
    /\ UNCHANGED <<uploaded_files, pc, err, df, all_dfs, progress, report_vars>>

\* lines 81-89
Accept ==
    /\ InLoop
    /\ Supported
    /\ file.readable
    /\ missing(file.columns) = << >>
    /\ status_text' = file.name
    /\ all_dfs' = Append(all_dfs, Standardize(file.rows))
    /\ progress' = i
    /\ i' = i + 1
    /\ UNCHANGED <<uploaded_files, pc, err, df, msgs, report_vars>>

\* lines 91-92
Return ==
    /\ pc = "read"
    /\ i > Len(uploaded_files)
    /\ status_text' = "done"
    /\ pc' = "returned"
    /\ UNCHANGED <<uploaded_files, err, df, i, all_dfs, msgs, progress, report_vars>>

(***************************************************************************)
(* The script after process_uploaded_files, lines 108-196.                 *)
(***************************************************************************)
\* lines 110-111
Stop ==
    /\ pc = "returned"
    /\ all_dfs = << >>
    /\ pc' = "stopped"
    /\ UNCHANGED <<uploaded_files, err, df, loop_vars, report_vars>>

\* lines 113-118 when the OnlyDate column holds a NaT beside a day: min() of
\* the object column compares a day with a float and raises TypeError
MinDateFails ==
    /\ pc = "returned"
    /\ all_dfs # << >>
    /\ df' = concat(all_dfs)
    /\ HasNaT(df') /\ DaysOf(df') # {}
    /\ pc' = "error"
    /\ err' = "min_date"
    /\ UNCHANGED <<uploaded_files, loop_vars, report_vars>>

\* lines 113-119 when the OnlyDate column holds no day: min() is NaN, which
\* st.date_input refuses as a default value
DateInputFails ==
    /\ pc = "returned"
    /\ all_dfs # << >>
    /\ df' = concat(all_dfs)
    /\ DaysOf(df') = {}
    /\ pc' = "error"
    /\ err' = "date_input"
    /\ UNCHANGED <<uploaded_files, loop_vars, report_vars>>

\* lines 113-119 otherwise
Concat ==
    /\ pc = "returned"
    /\ all_dfs # << >>
    /\ df' = concat(all_dfs)
    /\ ~HasNaT(df') /\ DaysOf(df') # {}
    /\ pc' = "filter"
    /\ UNCHANGED <<uploaded_files, err, loop_vars, report_vars>>

\* lines 119-126: the operator's date range and fleet selection
Filter ==
    /\ pc = "filter"
    /\ \E date_range \in DateRanges :
         /\ Len(date_range) = 2 => date_range[1] <= date_range[2]
         /\ \E fleet_filter \in SUBSET FleetOptions(DateFilter(df, date_range)) :
              df' = FleetFilter(DateFilter(df, date_range), fleet_filter)
    /\ pc' = "report"
    /\ UNCHANGED <<uploaded_files, err, loop_vars, report_vars>>

\* lines 129-196: both aggregations and both exports
Report ==
    /\ pc = "report"
    /\ subtotal_df' = formatted_rows(grouped(df))
    /\ fleet_summary' = fleet_summary_of(df)
    /\ styled_subtotal' = ExportDaily(subtotal_df')
    /\ styled_fleet' = ExportSummary(fleet_summary')
    /\ pc' = "done"
    /\ UNCHANGED <<uploaded_files, err, df, loop_vars>>

Next ==
    \/ Upload
    \/ Run
    \/ ReadCsvFails
    \/ ReadXlsxFails
    \/ SkipUnsupported
    \/ SkipLacking
    \/ Accept
    \/ Return
    \/ Stop
    \/ MinDateFails
    \/ DateInputFails
    \/ Concat
    \/ Filter
    \/ Report

Spec == Init /\ [][Next]_vars

(***************************************************************************)
(* What the claims speak of.                                               *)
(***************************************************************************)
Markers == {"Subtotal", "Grand Total"}

\* the files of the batch that parse and hold the required columns, among the
\* first k, in upload order
RECURSIVE AcceptedFiles(_, _)
AcceptedFiles(files, k) ==
    IF k = 0 THEN << >>
    ELSE AcceptedFiles(files, k - 1) \o
         (IF files[k].readable /\ files[k].name \in {"trips.csv", "TRIPS.XLSX"}
             /\ RequiredSet \subseteq files[k].columns
          THEN <<files[k]>> ELSE << >>)

\* the valid files among those the loop has been through
Handled == AcceptedFiles(uploaded_files, i - 1)

InRun == pc \notin {"upload"}

\* an Amount text that is a number
IsNumberText(s) == s \in {"100"}

DailySubtotalRows == Select(subtotal_df, {row \in RowsOf(subtotal_df) : row[2] = "Subtotal"})

\* C1: in the Daily Subtotals table, every date that appears has one Subtotal
\* row, whose Total Amount is the sum of Total Amount over the date's fleet
\* rows and whose Fleet Count is the sum of their Fleet Count.
C1_SubtotalIsSumOfDate ==
    pc = "done" =>
        \A d \in {subtotal_df[k][1] : k \in 1..Len(subtotal_df)} :
            LET ofDate == {row \in RowsOf(subtotal_df) : row[1] = d}
                fleetRows == Select(subtotal_df, {row \in ofDate : row[2] # "Subtotal"})
                subs == Select(subtotal_df, {row \in ofDate : row[2] = "Subtotal"})
            IN /\ Len(subs) = 1
               /\ subs[1][4] = Sum(Column(fleetRows, 4))
               /\ subs[1][3] = Sum(Column(fleetRows, 3))

\* a date with two fleet rows and a Subtotal row over both
C1_Witness ==
    /\ pc = "done"
    /\ \E k \in 1..Len(subtotal_df) :
         /\ k >= 3
         /\ subtotal_df[k][2] = "Subtotal"
         /\ subtotal_df[k][3] = 2
         /\ subtotal_df[k][4] = 200
         /\ subtotal_df[k - 1][1] = subtotal_df[k][1]
         /\ subtotal_df[k - 2][1] = subtotal_df[k][1]

\* C2: in the Fleet Summary table the last row is the Grand Total row, its
\* amount is the sum of Amount over the records of the filtered table and the
\* sum of the per-fleet totals, its count is the number of records, and the
\* rows before it are one per distinct fleet of the filtered table.
C2_GrandTotalIsSumOfRecords ==
    pc = "done" =>
        LET n == Len(fleet_summary)
            fleetRows == SubSeq(fleet_summary, 1, n - 1)
            fleets == {r.Fleet : r \in RowsOf(df)}
        IN /\ n >= 1
           /\ fleet_summary[n][1] = "Grand Total"
           /\ fleet_summary[n][2] = Len(df)
           /\ fleet_summary[n][3] = Sum(Column(df, "Amount"))
           /\ fleet_summary[n][3] = Sum(Column(fleetRows, 3))
           /\ fleet_summary[n][2] = Sum(Column(fleetRows, 2))
           /\ {fleetRows[k][1] : k \in 1..(n - 1)} = fleets
           /\ n - 1 = Cardinality(fleets)

\* two records of one fleet: one fleet row, a Grand Total of two records
C2_Witness ==
    /\ pc = "done"
    /\ Len(df) = 2
    /\ fleet_summary = << <<"FleetA", 2, 200>>, <<"Grand Total", 2, 200>> >>

\* C3: every record of an accepted file is in the table the file yields, at
\* its position, with Amount 0 when the Amount text is not a number; the
\* combined table is the tables of the accepted files one after the other;
\* and every record of the filtered table, whatever its Amount, counts 1 in the
\* Fleet Count of its (date, fleet) row and of its fleet row, whose totals are
\* the sums of the Amounts.
C3_UnparsableAmountKeptAsZero ==
    LET h == Handled
    IN /\ InRun =>
            /\ Len(all_dfs) = Len(h)
            /\ \A k \in 1..Len(all_dfs) :
                 /\ Len(all_dfs[k]) = Len(h[k].rows)
                 /\ \A j \in 1..Len(all_dfs[k]) :
                      ~IsNumberText(h[k].rows[j].Amount) => all_dfs[k][j].Amount = 0
       /\ pc = "filter" =>
            /\ Len(df) = RowsIn(h)
            /\ \A k \in 1..Len(all_dfs) : \A j \in 1..Len(all_dfs[k]) :
                 \E m \in 1..Len(df) : df[m] = all_dfs[k][j]
       /\ pc = "done" =>
            \A r \in RowsOf(df) :
               LET sameKey ==
                       Select(df, {x \in RowsOf(df) :
                                      x.OnlyDate = r.OnlyDate /\ x.Fleet = r.Fleet})
                   sameFleet == Select(df, {x \in RowsOf(df) : x.Fleet = r.Fleet})
               IN /\ \E k \in 1..Len(subtotal_df) :
                       subtotal_df[k] = <<r.OnlyDate, r.Fleet,
                                          Len(sameKey), Sum(Column(sameKey, "Amount"))>>
                  /\ \E k \in 1..Len(fleet_summary) :
                       fleet_summary[k] = <<r.Fleet,
                                            Len(sameFleet), Sum(Column(sameFleet, "Amount"))>>

\* a record with Amount "abc" beside one with Amount "100" in the same group:
\* the group counts 2 and totals 100
C3_Witness ==
    /\ pc = "done"
    /\ \E k \in 1..Len(uploaded_files) :
         /\ uploaded_files[k].columns = RequiredSet
         /\ \E j \in 1..Len(uploaded_files[k].rows) : uploaded_files[k].rows[j].Amount = "abc"
    /\ \E k \in 1..Len(subtotal_df) : subtotal_df[k] = <<1, "FleetA", 2, 100>>
    /\ \E k \in 1..Len(fleet_summary) : fleet_summary[k] = <<"FleetA", 2, 100>>

\* the script is past the upload loop and has ended
EndedAfterLoop == pc = "done" \/ (pc = "error" /\ err \in {"min_date", "date_input"})

\* C4: at the end of a run, every record of an accepted file whose Date did
\* not parse (it holds the missing-date value) is counted in a row of the Daily
\* Subtotals table and in the row of its fleet in the Fleet Summary, or a
\* message reports its removal.
C4_UnparsableDateNeverDroppedSilently ==
    EndedAfterLoop =>
        \A k \in 1..Len(all_dfs) : \A j \in 1..Len(all_dfs[k]) :
            all_dfs[k][j].OnlyDate = NaT =>
                \/ /\ pc = "done"
                   /\ \E m \in 1..Len(subtotal_df) :
                        /\ subtotal_df[m][1] = NaT
                        /\ subtotal_df[m][2] = all_dfs[k][j].Fleet
                   /\ \E m \in 1..Len(fleet_summary) :
                        fleet_summary[m][1] = all_dfs[k][j].Fleet
                \/ \E m \in 1..Len(msgs) : msgs[m].about = "row removed"

\* the messages the loop owes for the first k files, in order
RECURSIVE OwedMessages(_, _)
OwedMessages(files, k) ==
    IF k = 0 THEN << >>
    ELSE LET f == files[k]
             csv == f.name = "trips.csv"
             xlsx == f.name = "TRIPS.XLSX"
             lacks == {c \in RequiredSet : c \notin f.columns}
             named == Select(<<"Date", "Fleet", "Amount">>, lacks)
         IN OwedMessages(files, k - 1) \o
            (IF ~csv /\ ~xlsx
             THEN <<[level |-> "warning", file |-> f.name, about |-> "unsupported",
                     missing |-> << >>]>>
             ELSE IF ~f.readable
             THEN <<[level |-> "error", file |-> f.name, about |-> "unreadable",
                     missing |-> << >>]>>
             ELSE IF lacks # {}
             THEN <<[level |-> "error", file |-> f.name, about |-> "columns",
                     missing |-> named]>>
             ELSE << >>)

\* C5: whatever the batch, the files the loop has been through that lack a
\* required column have each an error naming the columns they lack and no
\* table, and the tables the loop holds are those of the valid files it has
\* been through, one each, in upload order; the loop never ends at a file
\* that lacks a column, it returns only after the last file, and the combined
\* table is the returned tables one after the other.
C5_LackingFileSkippedOthersKept ==
    LET h == Handled
    IN /\ InRun =>
            /\ msgs = OwedMessages(uploaded_files, i - 1)
            /\ Len(all_dfs) = Len(h)
            /\ \A k \in 1..Len(all_dfs) :
                 /\ Len(all_dfs[k]) = Len(h[k].rows)
                 /\ \A j \in 1..Len(all_dfs[k]) :
                      all_dfs[k][j].Fleet = astype_str(h[k].rows[j].Fleet)
       /\ pc = "error" /\ err = "read_csv" => ~uploaded_files[i].readable
       /\ pc \in {"returned", "stopped", "filter"} => i = Len(uploaded_files) + 1
       /\ pc = "filter" =>
            /\ Len(df) = RowsIn(h)
            /\ \A k \in 1..Len(all_dfs) : \A j \in 1..Len(all_dfs[k]) :
                 df[RowsIn(SubSeq(h, 1, k - 1)) + j] = all_dfs[k][j]

\* a file lacking Date and Amount, then a valid file with a row: the first
\* has its error, the second its table
C5_Witness ==
    /\ pc = "returned"
    /\ Len(uploaded_files) = 2
    /\ uploaded_files[1].columns = {"Fleet"}
    /\ Len(msgs) = 1
    /\ msgs[1].missing = <<"Date", "Amount">>
    /\ Len(all_dfs) = 1
    /\ Len(all_dfs[1]) = 1

\* C6: a failure to read a file, whatever its extension, never ends
\* process_uploaded_files: the file has its message and the loop goes on.
C6_ReadFailureNeverAborts ==
    InRun =>
        /\ ~(pc = "error" /\ err = "read_csv")
        /\ msgs = OwedMessages(uploaded_files, i - 1)

\* C7 as stated: when the filtered table is empty both report tables have no row.
C7_EmptyTableYieldsNoRows ==
    pc = "done" /\ df = << >> => subtotal_df = << >> /\ fleet_summary = << >>

\* C7 as amended: when the filtered table is empty the aggregation raises no
\* error, the Daily Subtotals table has no row, and the Fleet Summary table
\* holds the Grand Total row alone, with count 0 and amount 0.
C7_EmptyTableYieldsGrandTotalOnly ==
    /\ pc \in {"report", "done"} => err = "none"
    /\ pc = "report" /\ df = << >> => ENABLED Report
    /\ pc = "done" /\ df = << >> =>
         /\ subtotal_df = << >>
         /\ fleet_summary = << <<"Grand Total", 0, 0>> >>
         /\ styled_subtotal.rows = << >>

\* a combined table with rows, none of which is left by the filters
C7_Witness ==
    /\ pc = "done"
    /\ df = << >>
    /\ RowsIn(Handled) > 0

\* Python's order of the fleet names of the model; a marker ranks after them
NameRank(s) ==
    CASE s = "FleetA" -> 1
      [] s = "nan" -> 2
      [] OTHER -> 3

\* C8: in the Daily Subtotals table the dates never decrease, a row is a
\* Subtotal row exactly when it is the last row of its date, and the date
\* rises after each Subtotal row; in the Fleet Summary table the fleet rows
\* are in ascending fleet-name order and the last row is the Grand Total row.
C8_RowOrder ==
    pc = "done" =>
        /\ \A k \in 1..Len(subtotal_df) :
             /\ k < Len(subtotal_df) => subtotal_df[k][1] <= subtotal_df[k + 1][1]
             /\ (subtotal_df[k][2] = "Subtotal") <=>
                    (k = Len(subtotal_df) \/ subtotal_df[k][1] < subtotal_df[k + 1][1])
             /\ k < Len(subtotal_df) /\ subtotal_df[k][1] = subtotal_df[k + 1][1]
                    /\ subtotal_df[k + 1][2] # "Subtotal"
                    => NameRank(subtotal_df[k][2]) < NameRank(subtotal_df[k + 1][2])
        /\ Len(fleet_summary) >= 1
        /\ \A k \in 1..Len(fleet_summary) :
             /\ (fleet_summary[k][1] = "Grand Total") <=> (k = Len(fleet_summary))
             /\ k + 1 < Len(fleet_summary)
                    => NameRank(fleet_summary[k][1]) < NameRank(fleet_summary[k + 1][1])

\* records uploaded with the later date and the later fleet first: two date
\* blocks and two fleet rows come out in ascending order
C8_Witness ==
    /\ pc = "done"
    /\ Len(df) = 2
    /\ df[1].OnlyDate = 2 /\ df[2].OnlyDate = 1
    /\ df[1].Fleet = "nan" /\ df[2].Fleet = "FleetA"
    /\ Len(subtotal_df) = 4
    /\ Len(fleet_summary) = 3

\* the cell of a sheet row under the column named Fleet
FleetCell(sheet, row) ==
    LET c == CHOOSE j \in 1..Len(sheet.header) : sheet.header[j] = "Fleet"
    IN row.cells[c]

\* C9: in both exported sheets a data row is bold exactly when the value of
\* its Fleet column is "Subtotal" or "Grand Total".
C9_MarkerRowsBold ==
    pc = "done" =>
        \A sheet \in {styled_subtotal, styled_fleet} :
            \A k \in 1..Len(sheet.rows) :
                sheet.rows[k].bold <=> FleetCell(sheet, sheet.rows[k]).s \in Markers

\* C10: every run that gets past the upload loop produces both reports, and
\* the sum of Total Amount over the Subtotal rows is the Grand Total amount and
\* the sum of Fleet Count over the Subtotal rows is the Grand Total count,
\* also when the record table holds a record with a missing date.
C10_ReportsAgree ==
    EndedAfterLoop /\ (pc = "done" \/ HasNaT(df)) =>
        /\ pc = "done"
        /\ Sum(Column(DailySubtotalRows, 4)) = fleet_summary[Len(fleet_summary)][3]
        /\ Sum(Column(DailySubtotalRows, 3)) = fleet_summary[Len(fleet_summary)][2]
====
